---- MODULE Spec2Model ----
(***************************************************************************)
(* Provider orchestration and fallback engine of the manus backend:        *)
(* Provider (rate-limit accounting, completion attempt) and                *)
(* ProviderManager (selection, fallback loop, status), as implemented in   *)
(* src/services/provider_manager.py; and the task queue: Task (lifecycle   *)
(* record) and TaskQueue (registry, handlers, worker loop, start and       *)
(* stop), as implemented in src/services/task_queue.py.                    *)
(***************************************************************************)
EXTENDS Integers, Sequences, FiniteSets, TLC

\* ------------------------------------------------------------------ bounds
\* Configured rate limits are drawn from 0..MaxRateLimit (0: no limit).
MaxRateLimit == 2

\* Number of ProviderManager.generate_completion calls in a run.
MaxCalls == 2

\* Number of direct Provider.generate_completion calls in a run.
MaxDirectCalls == 4

\* The clock stops advancing at MaxTime.
MaxTime == 161

\* --------------------------------------------------------------- constants
\* provider_classes of ProviderManager._initialize_providers has two entries
\* ("openai", "anthropic"): configurations naming anything else are skipped.
\* A provider is named by its position in registration order.
NumProviders == 2

\* time_window = 60 in Provider._check_rate_limit.
time_window == 60

\* Default of the max_retries parameter of ProviderManager.generate_completion.
DefaultMaxRetries == 3

\* Provider.last_request_time at construction.
InitialLastRequestTime == 0

\* provider_name = None (or any falsy name): "use the default provider".
NoName == 0

ProviderIds == 1..NumProviders

\* A name that is not a key of ProviderManager.providers.
Unregistered == NumProviders + 1

Names == ProviderIds \cup {Unregistered}

\* ProviderConfig.priority: only the order of the priorities matters, and
\* NumProviders values give every order, ties included.
Priorities == 1..NumProviders

\* The priority assignments, up to their order: the best priority is 1 (the
\* default of ProviderConfig.priority).
PriorityOrders == {f \in [ProviderIds -> Priorities] : \E p \in ProviderIds : f[p] = 1}

\* The clock at construction: time.time() is far beyond one window.
StartTime == time_window + 40

\* Amounts by which the clock advances between two steps.
TickSteps == {time_window \div 2, time_window \div 2 + 1}

\* Settings.fallback_strategy is a free string: the three documented values
\* and one that is none of them.
Strategies == {"priority", "round-robin", "random", "unknown"}

\* ProviderConfig.rate_limit of the providers behind the manager: none, or
\* one request per minute. A call attempts a provider at most once, so the
\* manager sees a limiter only as admitting or rejecting; the limits
\* themselves are exercised on the providers directly.
ManagerRateLimits == {0, 1}

\* Values of the max_retries argument.
MaxRetriesChoices == {0, 1, DefaultMaxRetries}

NoError == [kind |-> "none", provider |-> NoName]

NoResult == [status |-> "none", provider |-> NoName, attempts |-> 0, error |-> NoError]

VARIABLES
    \* ProviderConfig / Settings snapshot (immutable after construction)
    priority, enabled, rate_limit, default_provider, fallback_strategy,
    \* Provider runtime fields
    request_count, error_count, last_request_time,
    \* time.time()
    now,
    \* the call in progress: position, caller, locals of generate_completion
    pc, kind, phase, current, provider_name, max_retries, tried_providers,
    last_error, retries, result,
    \* history: the provider_name argument, the attempts of the call in
    \* progress, the counters at its start, the admission times, the calls made
    requested, attempts, start_request_count, start_error_count, admitted, ncalls,
    \* TaskQueue fields: tasks (in insertion order), handlers, running,
    \* worker_task
    tasks, handlers, running, worker_task,
    \* the asyncio tasks created by start(), and the workers awaited by the
    \* stop() calls in progress
    workers, stopping,
    \* history: the ids create_task returned, the tasks in the order the workers took
    \* them, and whether a stop() call has returned with no start() call since
    ids_issued, taken, stopped,
    \* the tasks whose handler a process_task call made outside the worker loop
    \* awaits, and history: those calls, each with the task it was given and
    \* the status the task had then
    direct, process_calls,
    \* the capability invocations in flight on each provider for calls that run
    \* concurrently, and history: for each manager call that made a fallback
    \* attempt, the candidates of its first fallback attempt and the provider
    \* it went to
    inflight, rotation

config == <<priority, enabled, rate_limit, default_provider, fallback_strategy>>
stats == <<request_count, error_count, last_request_time>>
call == <<pc, kind, phase, current, provider_name, max_retries, tried_providers,
          last_error, retries, result>>
history == <<requested, attempts, start_request_count, start_error_count,
             admitted, ncalls>>
direct_calls == <<direct, process_calls>>
queue == <<tasks, handlers, running, worker_task, workers, stopping,
           ids_issued, taken, stopped, direct_calls>>
across_calls == <<inflight, rotation>>
vars == <<config, stats, now, call, history, queue, across_calls>>

\* ---------------------------------------------------------------- helpers
Range(s) == {s[i] : i \in 1..Len(s)}

\* ProviderManager.providers.values(): every registered provider, in
\* registration order.
providers == [i \in 1..NumProviders |-> i]

\* get_all_providers without the enabled filter.
get_all_providers_unfiltered == providers

\* ProviderManager.get_all_providers
get_all_providers == SelectSeq(providers, LAMBDA p : enabled[p])

\* Insert p into a priority-sorted sequence after every element whose
\* priority is not greater (sorted() is stable).
RECURSIVE InsertByPriority(_, _)
InsertByPriority(s, p) ==
    IF s = <<>> THEN <<p>>
    ELSE IF priority[p] < priority[Head(s)] THEN <<p>> \o s
    ELSE <<Head(s)>> \o InsertByPriority(Tail(s), p)

\* sorted(seq, key=lambda p: p.priority)
RECURSIVE SortedByPriority(_)
SortedByPriority(s) ==
    IF s = <<>> THEN <<>>
    ELSE InsertByPriority(SortedByPriority(SubSeq(s, 1, Len(s) - 1)), s[Len(s)])

\* ProviderManager._get_providers_by_priority
get_providers_by_priority == SortedByPriority(get_all_providers)

\* available_providers without the exclusion of the providers already tried.
available_providers_all(exclude) == get_all_providers

\* available_providers of ProviderManager._get_next_provider
available_providers(exclude) ==
    SelectSeq(get_all_providers, LAMBDA p : p \notin Range(exclude))

\* _get_next_provider taking the first available provider whatever the
\* strategy.
get_next_provider_first(exclude) ==
    IF available_providers(exclude) = <<>> THEN {}
    ELSE {available_providers(exclude)[1]}

\* _get_next_provider whose round-robin branch takes the last available
\* provider.
get_next_provider_last(exclude) ==
    LET available == available_providers(exclude) IN
    IF available = <<>> THEN {}
    ELSE IF fallback_strategy = "priority" THEN {SortedByPriority(available)[1]}
    ELSE IF fallback_strategy = "round-robin" THEN {available[Len(available)]}
    ELSE IF fallback_strategy = "random" THEN Range(available)
    ELSE {SortedByPriority(available)[1]}

\* ProviderManager._get_next_provider: the set of providers it can return
\* (one element, except under "random"); empty when it returns None.
get_next_provider(exclude) ==
    LET available == available_providers(exclude) IN
    IF available = <<>> THEN {}
    ELSE IF fallback_strategy = "priority" THEN {SortedByPriority(available)[1]}
    ELSE IF fallback_strategy = "round-robin" THEN {available[1]}
    ELSE IF fallback_strategy = "random" THEN Range(available)
    ELSE {SortedByPriority(available)[1]}

\* get_provider_status iterating over the enabled providers only.
get_provider_status_enabled_only ==
    [i \in 1..Len(get_all_providers) |->
        [name |-> get_all_providers[i],
         enabled |-> enabled[get_all_providers[i]],
         priority |-> priority[get_all_providers[i]],
         error_count |-> error_count[get_all_providers[i]],
         request_count |-> request_count[get_all_providers[i]]]]

\* ProviderManager.get_provider_status (the fields the model carries)
get_provider_status ==
    [i \in 1..Len(providers) |->
        [name |-> providers[i],
         enabled |-> enabled[providers[i]],
         priority |-> priority[providers[i]],
         error_count |-> error_count[providers[i]],
         request_count |-> request_count[providers[i]]]]

\* Provider._check_rate_limit: whether it resets the window.
window_expired(p) ==
    rate_limit[p] # 0 /\ now - last_request_time[p] > time_window

\* _check_rate_limit comparing the count with ">" instead of ">=".
check_rate_limit_strict(p) ==
    IF rate_limit[p] = 0 THEN FALSE
    ELSE IF window_expired(p) THEN FALSE
    ELSE request_count[p] > rate_limit[p]

\* Provider._check_rate_limit: the value returned.
check_rate_limit(p) ==
    IF rate_limit[p] = 0 THEN FALSE
    ELSE IF window_expired(p) THEN FALSE
    ELSE request_count[p] >= rate_limit[p]

\* The resolution ignoring the explicit name.
resolve_provider_name_default(name) == default_provider

\* "if not provider_name: provider_name = self.default_provider"
resolve_provider_name(name) ==
    IF name = NoName THEN default_provider ELSE name

\* "if provider_name and provider_name in self.providers" and
\* "if provider.enabled": the primary is attempted.
primary_usable(name) ==
    name # NoName /\ name \in ProviderIds /\ enabled[name]

\* The loop condition off by one.
loop_continues_inclusive == retries <= max_retries

\* A loop that ends only when no provider is left.
loop_continues_always == retries >= 0

\* The loop condition stopping one iteration early.
loop_continues_short == retries + 1 < max_retries

\* "while retries < max_retries"
loop_continues == retries < max_retries

\* A handler that catches the capability's failures only.
manager_catches_errors_only(err) == err.kind = "error"

\* "except ProviderError": the errors of an attempt the manager catches.
\* Provider.generate_completion raises nothing but ProviderError.
manager_catches(err) == err.kind \in {"disabled", "rate_limited", "error"}

\* The first error kept instead of the last.
record_first_error(old, e) == IF old = NoError THEN e ELSE old

\* "last_error = e"
record_last_error(old, e) == e

\* "tried_providers.append(...)"
record_tried(tried, name) == Append(tried, name)

\* Provider._check_rate_limit, lines 54-58: the count and the time of the
\* last request that a call of it leaves.
checked_count(p) == IF window_expired(p) THEN 0 ELSE request_count[p]

checked_time(p) == IF window_expired(p) THEN now ELSE last_request_time[p]

\* The checks of generate_completion with the rate limit checked first.
rejection_limit_first(p) ==
    IF check_rate_limit(p) THEN [raise |-> "rate_limited", checked |-> TRUE]
    ELSE IF ~enabled[p] THEN [raise |-> "disabled", checked |-> TRUE]
    ELSE [raise |-> "none", checked |-> TRUE]

\* Provider.generate_completion, lines 86-90: the error the checks raise, if
\* any, and whether _check_rate_limit was called.
rejection(p) ==
    IF ~enabled[p] THEN [raise |-> "disabled", checked |-> FALSE]
    ELSE IF check_rate_limit(p) THEN [raise |-> "rate_limited", checked |-> TRUE]
    ELSE [raise |-> "none", checked |-> TRUE]

\* Provider._update_request_stats counting every request twice.
update_request_stats_twice(count) == count + 2

\* Provider._update_request_stats, lines 66-69: the new request_count.
update_request_stats(count) == count + 1

\* _update_request_stats called after the capability has returned.
stats_updated_after_await == FALSE

\* Provider.generate_completion, lines 96-98: _update_request_stats is called
\* before the capability is awaited.
stats_updated_before_await == TRUE

\* A manager that goes on to the fallback loop after a successful attempt.
after_success_continues(k) == IF k = "manager" THEN "select" ELSE "done"

\* "return await provider.generate_completion(...)", lines 228-230 and
\* 243-245: where a caller of kind k is after a successful attempt.
after_success(k) == "done"

\* The loop counter reported instead of the number of providers tried.
attempt_count_retries == retries

\* len(tried_providers) in the aggregated error message
attempt_count == Len(tried_providers)

\* The admission log keeps the MaxRateLimit most recent admission times.
LastAdmitted(log) ==
    IF Len(log) <= MaxRateLimit THEN log
    ELSE SubSeq(log, Len(log) - MaxRateLimit + 1, Len(log))

\* ------------------------------------------------------------- task queue
\* Number of TaskQueue.create_task calls in a run.
MaxTasks == 2

\* Number of worker tasks TaskQueue.start creates in a run.
MaxStarts == 2

\* Bound on the process_task calls made outside the worker loop.
MaxProcessCalls == 2

\* Python's None; strings are the tuples of their parts, so that a formatted
\* message keeps the value formatted into it and "" differs from None.
None == <<>>

\* TaskQueue.worker_task = None; a worker is named by its position among the
\* asyncio tasks created by start().
NoWorker == 0

\* Task.progress is a fraction of 1.0, kept here in hundredths.
FullProgress == 100

\* Values of the task_type argument.
TaskTypes == {"echo"}

\* A registered handler: an async callable supplied by the caller.
Handler == <<"handler">>

\* What a handler may return.
ReturnValues == {<<"done">>}

\* What a handler may raise.
Exceptions == {[cls |-> "ValueError", msg |-> "boom"]}

\* asyncio.CancelledError(), as raised by Task.cancel() of asyncio.
CancelledError == [cls |-> "CancelledError", msg |-> ""]

\* str(e) of an exception built from one message.
str(e) == <<e.msg>>

\* datetime.now(): the fields it is stored in are only ever compared to None.
datetime_now == <<"datetime">>

\* uuid.uuid4(): an id that was never handed out before.
uuid4_repeated == IF ids_issued = <<>> THEN Len(ids_issued) + 1 ELSE ids_issued[1]

uuid4 == Len(ids_issued) + 1

\* Task.__init__, lines 25-36, with the history of the task: whether it was
\* ever running, how often a handler was invoked on it, how the invocation
\* ended and what it returned.
Task(task_id, task_type) ==
    [task_id |-> task_id, task_type |-> task_type, status |-> "pending",
     progress |-> 0, result |-> None, error |-> None, completed_at |-> None,
     was_running |-> FALSE, invoked |-> 0, outcome |-> "none", returned |-> None]

\* Task.complete, lines 57-63.
complete_status_only(task, value) ==
    [task EXCEPT !.status = "completed", !.completed_at = datetime_now]

complete(task, value) ==
    [task EXCEPT !.status = "completed", !.progress = FullProgress,
                 !.result = value, !.completed_at = datetime_now]

\* Task.fail, lines 65-70.
fail_without_error(task, error) ==
    [task EXCEPT !.status = "failed", !.completed_at = datetime_now]

fail(task, error) ==
    [task EXCEPT !.status = "failed", !.error = error, !.completed_at = datetime_now]

\* Task.cancel, lines 72-76.
cancel_status_only(task) == [task EXCEPT !.status = "cancelled"]

cancel(task) ==
    [task EXCEPT !.status = "cancelled", !.completed_at = datetime_now]

\* self.tasks[task_id] = task on a dict kept in insertion order: a new key is
\* appended, an existing key keeps its place and gets the new value.
put(ts, task) ==
    IF \E i \in 1..Len(ts) : ts[i].task_id = task.task_id
    THEN [i \in 1..Len(ts) |-> IF ts[i].task_id = task.task_id THEN task ELSE ts[i]]
    ELSE Append(ts, task)

\* TaskQueue.get_pending_tasks, lines 137-144: the pending tasks in the order
\* of self.tasks, each named by its position there.
get_pending_tasks_newest_first(ts) ==
    LET n == Len(ts)
        pending == SelectSeq([i \in 1..n |-> i], LAMBDA i : ts[i].status = "pending")
    IN [k \in 1..Len(pending) |-> pending[Len(pending) + 1 - k]]

get_pending_tasks(ts) ==
    SelectSeq([i \in 1..Len(ts) |-> i], LAMBDA i : ts[i].status = "pending")

\* f"No handler registered for task type: {task.task_type}", line 158.
no_handler_error(task_type) == <<"No handler registered for task type: ", task_type>>

\* self.handlers.get(task.task_type), line 156.
handler_for_any(hs, task_type) == Handler

handler_for(hs, task_type) == hs[task_type]

\* The task left pending while its handler is awaited.
status_while_awaiting_pending == "pending"

\* "task.status = TaskStatus.RUNNING", line 161, before the await of line 165.
status_while_awaiting == "running"

\* TaskQueue.process_task without the check of lines 153-154.
process_task_unguarded(ts, i) ==
    IF handler_for(handlers, ts[i].task_type) = None
    THEN [tasks |-> [ts EXCEPT ![i] = fail(@, no_handler_error(@.task_type))],
          awaiting |-> FALSE]
    ELSE [tasks |-> [ts EXCEPT ![i].status = "running",
                               ![i].was_running = TRUE,
                               ![i].invoked = @ + 1],
          awaiting |-> TRUE]

\* TaskQueue.process_task, lines 146-163, up to the await of the handler:
\* the tasks afterwards and whether a handler invocation is awaited.
process_task(ts, i) ==
    IF ts[i].status # "pending"
    THEN [tasks |-> ts, awaiting |-> FALSE]
    ELSE IF handler_for(handlers, ts[i].task_type) = None
         THEN [tasks |-> [ts EXCEPT ![i] = fail(@, no_handler_error(@.task_type))],
               awaiting |-> FALSE]
         ELSE [tasks |-> [ts EXCEPT ![i].status = status_while_awaiting,
                                    ![i].was_running = TRUE,
                                    ![i].invoked = @ + 1],
               awaiting |-> TRUE]

\* A worker that returns when it finds no pending task.
idle_wait_returns == "done"

\* "await asyncio.sleep(1)", lines 178-179: where the worker is after it
\* found no pending task.
idle_wait == "sleep"

\* The condition of the worker's while loop, line 173.
loop_guard_ignored == TRUE

loop_guard == running

\* TaskQueue.worker, lines 171-179, from the loop condition to the next
\* suspension point: the tasks afterwards, where the worker is then (awaiting
\* a handler, asleep, or returned), the task it is processing, and the tasks
\* it took, in order, appended to tk.
RECURSIVE worker(_, _)
worker(ts, tk) ==
    IF ~loop_guard
    THEN [tasks |-> ts, pc |-> "done", task |-> 0, taken |-> tk]
    ELSE LET pending_tasks == get_pending_tasks(ts) IN
         IF pending_tasks # <<>>
         THEN LET task == pending_tasks[1]
                  r == process_task(ts, task)
              IN IF r.awaiting
                 THEN [tasks |-> r.tasks, pc |-> "handler", task |-> task,
                       taken |-> Append(tk, task)]
                 ELSE worker(r.tasks, Append(tk, task))
         ELSE [tasks |-> ts, pc |-> idle_wait, task |-> 0, taken |-> tk]

\* TaskQueue.__init__, lines 81-85.
QueueConstructed ==
    /\ tasks = <<>>
    /\ handlers = [t \in TaskTypes |-> None]
    /\ running = FALSE
    /\ worker_task = NoWorker
    /\ workers = <<>>
    /\ stopping = {}
    /\ ids_issued = <<>>
    /\ taken = <<>>
    /\ stopped = FALSE
    /\ direct = {}
    /\ process_calls = <<>>

\* ------------------------------------------------------------------- Init
\* Provider.__init__ and the start of the run, for a given Settings snapshot.
Constructed ==
    /\ request_count = [p \in ProviderIds |-> 0]
    /\ error_count = [p \in ProviderIds |-> 0]
    /\ last_request_time = [p \in ProviderIds |-> InitialLastRequestTime]
    /\ now = StartTime
    /\ pc = "idle"
    /\ kind = "none"
    /\ phase = "none"
    /\ current = NoName
    /\ provider_name = NoName
    /\ max_retries = 0
    /\ tried_providers = <<>>
    /\ last_error = NoError
    /\ retries = 0
    /\ result = NoResult
    /\ requested = NoName
    /\ attempts = <<>>
    /\ start_request_count = request_count
    /\ start_error_count = error_count
    /\ admitted = [p \in ProviderIds |-> <<>>]
    /\ ncalls = 0
    /\ inflight = [p \in ProviderIds |-> 0]
    /\ rotation = <<>>

\* ProviderManager.__init__ over every Settings snapshot within the bounds.
Init ==
    /\ priority \in PriorityOrders
    /\ enabled \in [ProviderIds -> BOOLEAN]
    /\ rate_limit \in [ProviderIds -> ManagerRateLimits]
    /\ default_provider \in Names
    /\ fallback_strategy \in Strategies
    /\ Constructed
    /\ QueueConstructed

\* Providers used on their own: every enabled flag and rate limit.
InitLimiter ==
    /\ priority = [p \in ProviderIds |-> 1]
    /\ enabled \in [ProviderIds -> BOOLEAN]
    /\ rate_limit \in [ProviderIds -> 0..MaxRateLimit]
    /\ default_provider = 1
    /\ fallback_strategy = "priority"
    /\ Constructed
    /\ QueueConstructed

\* ---------------------------------------------------------------- actions
\* The clock advances. Code between two suspension points runs without the
\* clock being read twice, so time passes between calls and while a
\* capability invocation is awaited.
Tick(d) ==
    /\ pc \in {"idle", "done", "await"}
    /\ now + d <= MaxTime
    /\ now' = now + d
    /\ UNCHANGED <<config, stats, call, history, queue, across_calls>>

\* The locals of a call that has attempted nothing yet (lines 218-219, 237).
Fresh == [tried |-> <<>>, last_error |-> NoError, retries |-> 0, attempts |-> <<>>]

\* The locals of the call in progress.
Locals == [tried |-> tried_providers, last_error |-> last_error,
           retries |-> retries, attempts |-> attempts]

\* What a caller of kind k, in phase ph and with locals l, does with the
\* error err that the attempt raised: the manager records it and goes on to
\* the fallback loop (lines 231-234, 246-251); any other caller receives it.
Raised(k, ph, l, err) ==
    /\ current' = NoName
    /\ IF k = "manager" /\ manager_catches(err)
       THEN /\ last_error' = record_last_error(l.last_error, err)
            /\ tried_providers' = record_tried(l.tried, err.provider)
            /\ retries' = IF ph = "fallback" THEN l.retries + 1 ELSE l.retries
            /\ pc' = "select"
            /\ phase' = "fallback"
            /\ result' = NoResult
       ELSE /\ pc' = "done"
            /\ result' = [status |-> "error", provider |-> err.provider,
                          attempts |-> 1, error |-> err]
            /\ last_error' = l.last_error
            /\ tried_providers' = l.tried
            /\ retries' = l.retries
            /\ phase' = ph

\* Provider.generate_completion on provider p, lines 86-97: the checks and
\* the request accounting, up to the invocation of the external capability,
\* for a caller of kind k in phase ph with locals l. The fields that
\* _check_rate_limit writes are written whenever it was called.
Attempt(k, p, ph, l) ==
    LET r == rejection(p)
        count == IF r.checked THEN checked_count(p) ELSE request_count[p]
        time == IF r.checked THEN checked_time(p) ELSE last_request_time[p]
    IN
    IF r.raise # "none"
    THEN /\ Raised(k, ph, l, [kind |-> r.raise, provider |-> p])
         /\ attempts' = Append(l.attempts, [provider |-> p, phase |-> ph,
                                            outcome |-> r.raise])
         /\ request_count' = [request_count EXCEPT ![p] = count]
         /\ last_request_time' = [last_request_time EXCEPT ![p] = time]
         /\ UNCHANGED <<error_count, admitted>>
    ELSE \* _update_request_stats
         /\ request_count' = [request_count EXCEPT ![p] = update_request_stats(count)]
         /\ last_request_time' = [last_request_time EXCEPT ![p] = now]
         /\ admitted' = [admitted EXCEPT ![p] = LastAdmitted(Append(@, now))]
         /\ attempts' = Append(l.attempts, [provider |-> p, phase |-> ph,
                                            outcome |-> "pending"])
         /\ pc' = "await"
         /\ current' = p
         /\ phase' = ph
         /\ last_error' = l.last_error
         /\ tried_providers' = l.tried
         /\ retries' = l.retries
         /\ result' = NoResult
         /\ UNCHANGED error_count

\* ProviderManager.generate_completion, lines 218-235: set up the call,
\* resolve the primary and attempt it if it is registered and enabled.
StartCall(name, mr) ==
    /\ pc \in {"idle", "done"}
    /\ ncalls < MaxCalls
    /\ ncalls' = ncalls + 1
    /\ kind' = "manager"
    /\ requested' = name
    /\ provider_name' = resolve_provider_name(name)
    /\ max_retries' = mr
    /\ start_request_count' = request_count
    /\ start_error_count' = error_count
    /\ IF primary_usable(resolve_provider_name(name))
       THEN Attempt("manager", resolve_provider_name(name), "primary", Fresh)
       ELSE /\ pc' = "select"
            /\ phase' = "fallback"
            /\ current' = NoName
            /\ tried_providers' = Fresh.tried
            /\ last_error' = Fresh.last_error
            /\ retries' = Fresh.retries
            /\ attempts' = Fresh.attempts
            /\ result' = NoResult
            /\ UNCHANGED <<stats, admitted>>
    /\ UNCHANGED <<config, now, queue, across_calls>>

\* Provider.generate_completion called directly on a provider
\* (ProviderIntegration.test_provider, simulate_rate_limit).
DirectCall(p) ==
    /\ pc \in {"idle", "done"}
    /\ ncalls < MaxDirectCalls
    /\ ncalls' = ncalls + 1
    /\ kind' = "direct"
    /\ requested' = p
    /\ provider_name' = p
    /\ max_retries' = 0
    /\ start_request_count' = request_count
    /\ start_error_count' = error_count
    /\ Attempt("direct", p, "direct", Fresh)
    /\ UNCHANGED <<config, now, queue, across_calls>>

\* The external completion capability returns (ok) or raises (~ok):
\* Provider.generate_completion lines 98-102 and the caller's handling.
CapabilityReturns(ok) ==
    /\ pc = "await"
    /\ LET p == current
           n == Len(attempts) IN
       IF ok
       THEN /\ attempts' = [attempts EXCEPT ![n].outcome = "ok"]
            /\ result' = [status |-> "success", provider |-> p,
                          attempts |-> 0, error |-> NoError]
            /\ pc' = after_success(kind)
            /\ current' = NoName
            /\ UNCHANGED <<error_count, tried_providers, last_error, retries, phase>>
       ELSE /\ error_count' = [error_count EXCEPT ![p] = @ + 1]
            /\ attempts' = [attempts EXCEPT ![n].outcome = "error"]
            /\ Raised(kind, phase, Locals, [kind |-> "error", provider |-> p])
    /\ UNCHANGED <<config, request_count, last_request_time, now, kind,
                   provider_name, max_retries, requested, start_request_count,
                   start_error_count, admitted, ncalls, queue, across_calls>>

\* "All providers failed after N attempts: <last error>", lines 253-259.
AllFailed ==
    /\ result' = [status |-> "failed", provider |-> NoName,
                  attempts |-> attempt_count, error |-> last_error]
    /\ pc' = "done"
    /\ UNCHANGED <<stats, current, phase, tried_providers, last_error, retries,
                   attempts, admitted>>

\* One iteration of the fallback loop, lines 238-251: the loop condition,
\* the selection and the attempt on the provider selected; and the failure
\* after the loop.
\* With log set, the first fallback attempt of a call is logged with its
\* candidates.
FallbackIteration(log) ==
    /\ pc = "select"
    /\ IF loop_continues
       THEN IF get_next_provider(tried_providers) = {}
            THEN AllFailed /\ UNCHANGED rotation
            ELSE \E next_provider \in get_next_provider(tried_providers) :
                    /\ Attempt("manager", next_provider, "fallback", Locals)
                    /\ rotation' =
                          IF log /\ retries = 0
                          THEN Append(rotation,
                                 [call |-> ncalls,
                                  candidates |-> Range(available_providers(tried_providers)),
                                  provider |-> next_provider])
                          ELSE rotation
       ELSE AllFailed /\ UNCHANGED rotation
    /\ UNCHANGED <<config, now, kind, provider_name, max_retries, requested,
                   start_request_count, start_error_count, ncalls, queue, inflight>>

Select == FallbackIteration(FALSE)

SelectLogged == FallbackIteration(TRUE)

\* The provider_name arguments of a call: none, or a name other than
\* default_provider (naming the default resolves as naming nothing does).
ProviderNameChoices == {NoName} \cup (Names \ {default_provider})

\* Calls through the manager; between two steps the clock may advance past
\* a whole rate window.
Next ==
    \/ Tick(time_window + 1)
    \/ \E name \in ProviderNameChoices, mr \in MaxRetriesChoices : StartCall(name, mr)
    \/ \E ok \in BOOLEAN : CapabilityReturns(ok)
    \/ Select

Spec == Init /\ [][Next]_vars

\* Calls made on the providers directly.
NextLimiter ==
    \/ \E d \in TickSteps : Tick(d)
    \/ \E p \in ProviderIds : DirectCall(p)
    \/ \E ok \in BOOLEAN : CapabilityReturns(ok)

SpecLimiter == InitLimiter /\ [][NextLimiter]_vars

\* Calls through the manager while the clock stands still.
NextCalls ==
    \/ \E name \in ProviderNameChoices, mr \in MaxRetriesChoices : StartCall(name, mr)
    \/ \E ok \in BOOLEAN : CapabilityReturns(ok)
    \/ Select

\* generate_completion is a coroutine the event loop keeps running: the
\* code after a failed attempt runs on to the next attempt or to the end of
\* the call. Every capability invocation is taken to return or raise.
CallFairness ==
    /\ WF_vars(Select)
    /\ WF_vars(\E ok \in BOOLEAN : CapabilityReturns(ok))

SpecCalls == Init /\ [][NextCalls]_vars /\ CallFairness

\* A manager configured with round-robin, every other setting free.
InitRotation ==
    /\ Init
    /\ fallback_strategy = "round-robin"

\* Successive calls through the manager, the first fallback attempt of each
\* logged.
NextRotation ==
    \/ \E name \in ProviderNameChoices, mr \in MaxRetriesChoices : StartCall(name, mr)
    \/ \E ok \in BOOLEAN : CapabilityReturns(ok)
    \/ SelectLogged

SpecRotation == InitRotation /\ [][NextRotation]_vars

\* Provider.generate_completion on provider p, lines 86-97, for one of
\* several callers that run concurrently: the code up to the await of the
\* capability runs without suspension. An admitted call leaves an
\* invocation in flight.
ConcurrentCall(p) ==
    /\ ncalls < MaxDirectCalls
    /\ ncalls' = ncalls + 1
    /\ LET r == rejection(p)
           count == IF r.checked THEN checked_count(p) ELSE request_count[p]
           time == IF r.checked THEN checked_time(p) ELSE last_request_time[p]
       IN IF r.raise # "none"
          THEN /\ request_count' = [request_count EXCEPT ![p] = count]
               /\ last_request_time' = [last_request_time EXCEPT ![p] = time]
               /\ UNCHANGED <<admitted, inflight>>
          ELSE /\ request_count' = [request_count EXCEPT ![p] =
                      IF stats_updated_before_await
                      THEN update_request_stats(count) ELSE count]
               /\ last_request_time' = [last_request_time EXCEPT ![p] =
                      IF stats_updated_before_await THEN now ELSE time]
               /\ admitted' = [admitted EXCEPT ![p] = LastAdmitted(Append(@, now))]
               /\ inflight' = [inflight EXCEPT ![p] = @ + 1]
    /\ UNCHANGED <<config, now, call, error_count, requested, attempts,
                   start_request_count, start_error_count, rotation, queue>>

\* The capability returns (ok) or raises (~ok) for one of the invocations in
\* flight on provider p: lines 98-102.
ConcurrentReturns(p, ok) ==
    /\ inflight[p] > 0
    /\ inflight' = [inflight EXCEPT ![p] = @ - 1]
    /\ error_count' = [error_count EXCEPT ![p] = IF ok THEN @ ELSE @ + 1]
    /\ IF stats_updated_before_await
       THEN UNCHANGED <<request_count, last_request_time>>
       ELSE /\ request_count' = [request_count EXCEPT ![p] = update_request_stats(@)]
            /\ last_request_time' = [last_request_time EXCEPT ![p] = now]
    /\ UNCHANGED <<config, now, call, history, rotation, queue>>

\* Callers of Provider.generate_completion that run concurrently, with the
\* clock advancing between any two steps.
NextConcurrent ==
    \/ \E d \in TickSteps : Tick(d)
    \/ \E p \in ProviderIds : ConcurrentCall(p)
    \/ \E p \in ProviderIds, ok \in BOOLEAN : ConcurrentReturns(p, ok)

SpecConcurrent == InitLimiter /\ [][NextConcurrent]_vars

\* ------------------------------------------------------ task queue actions
provider_side == <<config, stats, now, call, history, across_calls>>

\* A TaskQueue on its own: the provider side is constructed and left alone.
InitQueue ==
    /\ priority = [p \in ProviderIds |-> 1]
    /\ enabled = [p \in ProviderIds |-> TRUE]
    /\ rate_limit = [p \in ProviderIds |-> 0]
    /\ default_provider = 1
    /\ fallback_strategy = "priority"
    /\ Constructed
    /\ QueueConstructed

\* TaskQueue.register_handler, lines 87-96.
RegisterHandler(task_type) ==
    /\ handlers' = [handlers EXCEPT ![task_type] = Handler]
    /\ UNCHANGED <<tasks, running, worker_task, workers, stopping, ids_issued,
                   taken, stopped>>
    /\ UNCHANGED <<provider_side, direct_calls>>

\* TaskQueue.create_task, lines 98-114; the id returned is logged.
CreateTask(task_type) ==
    /\ Len(ids_issued) < MaxTasks
    /\ LET task_id == uuid4 IN
          /\ tasks' = put(tasks, Task(task_id, task_type))
          /\ ids_issued' = Append(ids_issued, task_id)
    /\ UNCHANGED <<handlers, running, worker_task, workers, stopping, taken,
                   stopped>>
    /\ UNCHANGED <<provider_side, direct_calls>>

\* "if self.running: return", lines 183-184.
start_returns_early_never == FALSE

start_returns_early == running

\* TaskQueue.start, lines 181-188. asyncio.create_task schedules the worker:
\* it takes its first step later.
Start ==
    /\ stopped' = FALSE
    /\ IF start_returns_early
       THEN UNCHANGED <<running, worker_task, workers>>
       ELSE /\ Len(workers) < MaxStarts
            /\ running' = TRUE
            /\ workers' = Append(workers, [pc |-> "created", task |-> 0,
                                           cancel_requested |-> FALSE])
            /\ worker_task' = Len(workers) + 1
    /\ UNCHANGED <<tasks, handlers, stopping, ids_issued, taken>>
    /\ UNCHANGED <<provider_side, direct_calls>>

\* TaskQueue.stop, lines 190-201, up to "await self.worker_task": the call
\* returns at once when the queue is not running, when there is no worker
\* task, or when the worker task has already ended; otherwise it requests
\* the cancellation of the worker task and waits for it to end. The waiting
\* call is logged with the worker it waits for, the number of workers
\* created so far and whether the worker was idle when stop() was called.
Stop ==
    /\ IF ~running
       THEN /\ stopped' = TRUE
            /\ UNCHANGED <<running, worker_task, workers, stopping>>
       ELSE /\ running' = FALSE
            /\ IF worker_task = NoWorker
               THEN /\ stopped' = TRUE
                    /\ UNCHANGED <<worker_task, workers, stopping>>
               ELSE IF workers[worker_task].pc = "done"
                    THEN /\ worker_task' = NoWorker
                         /\ stopped' = TRUE
                         /\ UNCHANGED <<workers, stopping>>
                    ELSE /\ workers' = [workers EXCEPT
                                           ![worker_task].cancel_requested = TRUE]
                         /\ stopping' = stopping \cup
                               {[worker |-> worker_task, starts |-> Len(workers),
                                 idle |-> workers[worker_task].pc # "handler"]}
                         /\ UNCHANGED <<worker_task, stopped>>
    /\ UNCHANGED <<tasks, handlers, ids_issued, taken>>
    /\ UNCHANGED <<provider_side, direct_calls>>

\* TaskQueue.stop, lines 200-202, once the awaited worker task has ended:
\* "self.worker_task = None". The call counts as a completed stop when no
\* start() call created a worker while it waited.
StopReturns(s) ==
    /\ s \in stopping
    /\ workers[s.worker].pc = "done"
    /\ worker_task' = NoWorker
    /\ stopping' = stopping \ {s}
    /\ stopped' = (stopped \/ s.starts = Len(workers))
    /\ UNCHANGED <<tasks, handlers, running, workers, ids_issued, taken>>
    /\ UNCHANGED <<provider_side, direct_calls>>

\* The worker loop after the task that worker w was processing is settled
\* as ts: it runs on to its next suspension point.
Continue(w, ts) ==
    LET r == worker(ts, taken) IN
        /\ tasks' = r.tasks
        /\ taken' = r.taken
        /\ workers' = [workers EXCEPT ![w].pc = r.pc, ![w].task = r.task]

\* A worker task takes its first step, or its asyncio.sleep(1) ends. With a
\* cancellation requested, CancelledError is raised there instead and ends
\* the worker task.
WorkerResumes(w) ==
    /\ w \in 1..Len(workers)
    /\ workers[w].pc \in {"created", "sleep"}
    /\ IF workers[w].cancel_requested
       THEN /\ workers' = [workers EXCEPT ![w].pc = "done"]
            /\ UNCHANGED <<tasks, taken>>
       ELSE Continue(w, tasks)
    /\ UNCHANGED <<handlers, running, worker_task, stopping, ids_issued,
                   stopped>>
    /\ UNCHANGED <<provider_side, direct_calls>>

\* The handler awaited by worker w returns value: lines 165-166, then the
\* worker loop.
HandlerReturns(w, value) ==
    /\ w \in 1..Len(workers)
    /\ workers[w].pc = "handler"
    /\ ~workers[w].cancel_requested
    /\ LET task == workers[w].task IN
          Continue(w, [tasks EXCEPT ![task] =
              complete([@ EXCEPT !.outcome = "returned", !.returned = value], value)])
    /\ UNCHANGED <<handlers, running, worker_task, stopping, ids_issued,
                   stopped>>
    /\ UNCHANGED <<provider_side, direct_calls>>

\* The handler awaited by worker w raises e: lines 167-169, then the worker
\* loop.
HandlerRaises(w, e) ==
    /\ w \in 1..Len(workers)
    /\ workers[w].pc = "handler"
    /\ ~workers[w].cancel_requested
    /\ LET task == workers[w].task IN
          Continue(w, [tasks EXCEPT ![task] =
              fail([@ EXCEPT !.outcome = "raised"], str(e))])
    /\ UNCHANGED <<handlers, running, worker_task, stopping, ids_issued,
                   stopped>>
    /\ UNCHANGED <<provider_side, direct_calls>>

\* What a handler does with the CancelledError raised at its suspension
\* point: it lets it propagate, or it catches it and goes on.
CancellationOutcomes == {"propagates", "suppressed"}

\* worker_task.cancel() of line 198 reaches worker w while it awaits a
\* handler: CancelledError is raised inside the handler. It is not an
\* Exception, so when the handler lets it propagate, line 167 does not catch
\* it, the task stays as it is and the worker task ends.
HandlerCancelled(w, outcome) ==
    /\ w \in 1..Len(workers)
    /\ workers[w].pc = "handler"
    /\ workers[w].cancel_requested
    /\ LET task == workers[w].task IN
       IF outcome = "propagates"
       THEN /\ workers' = [workers EXCEPT ![w].pc = "done"]
            /\ tasks' = [tasks EXCEPT ![task].outcome = "interrupted"]
       ELSE /\ workers' = [workers EXCEPT ![w].cancel_requested = FALSE]
            /\ UNCHANGED tasks
    /\ UNCHANGED <<handlers, running, worker_task, stopping, ids_issued, taken,
                   stopped>>
    /\ UNCHANGED <<provider_side, direct_calls>>

\* Task.cancel called by the owner of the task, lines 72-76.
Cancel(task) ==
    /\ task \in 1..Len(tasks)
    /\ tasks' = [tasks EXCEPT ![task] = cancel(@)]
    /\ UNCHANGED <<handlers, running, worker_task, workers, stopping,
                   ids_issued, taken, stopped>>
    /\ UNCHANGED <<provider_side, direct_calls>>

NextQueue ==
    \/ \E task_type \in TaskTypes : RegisterHandler(task_type)
    \/ \E task_type \in TaskTypes : CreateTask(task_type)
    \/ Start
    \/ Stop
    \/ \E s \in stopping : StopReturns(s)
    \/ \E w \in 1..Len(workers) : WorkerResumes(w)
    \/ \E w \in 1..Len(workers), value \in ReturnValues : HandlerReturns(w, value)
    \/ \E w \in 1..Len(workers), e \in Exceptions : HandlerRaises(w, e)
    \/ \E w \in 1..Len(workers), outcome \in CancellationOutcomes :
          HandlerCancelled(w, outcome)
    \/ \E task \in 1..Len(tasks) : Cancel(task)

SpecQueue == InitQueue /\ [][NextQueue]_vars

\* The handler awaited by worker w ends its invocation, one way or another.
HandlerEnds(w) ==
    \/ \E value \in ReturnValues : HandlerReturns(w, value)
    \/ \E e \in Exceptions : HandlerRaises(w, e)
    \/ \E outcome \in CancellationOutcomes : HandlerCancelled(w, outcome)

\* The event loop runs every worker task that is ready: a created worker
\* task takes its first step and asyncio.sleep(1) ends. Handlers are taken
\* to end every invocation.
QueueFairness ==
    \A w \in 1..MaxStarts :
        WF_vars(WorkerResumes(w)) /\ WF_vars(HandlerEnds(w))

\* A queue that is started and never stopped.
NextStarted ==
    \/ \E task_type \in TaskTypes : RegisterHandler(task_type)
    \/ \E task_type \in TaskTypes : CreateTask(task_type)
    \/ Start
    \/ \E w \in 1..Len(workers) : WorkerResumes(w)
    \/ \E w \in 1..Len(workers), value \in ReturnValues : HandlerReturns(w, value)
    \/ \E w \in 1..Len(workers), e \in Exceptions : HandlerRaises(w, e)
    \/ \E task \in 1..Len(tasks) : Cancel(task)

SpecStarted == InitQueue /\ [][NextStarted]_vars /\ QueueFairness

\* TaskQueue.process_task called outside the worker loop on task i, lines
\* 146-163, up to the await of the handler (or to the return).
DirectProcessTask(i) ==
    /\ i \in 1..Len(tasks)
    /\ Len(process_calls) < MaxProcessCalls
    /\ LET r == process_task(tasks, i) IN
          /\ tasks' = r.tasks
          /\ direct' = IF r.awaiting THEN direct \cup {i} ELSE direct
    /\ process_calls' = Append(process_calls,
                               [task |-> i, status |-> tasks[i].status])
    /\ UNCHANGED <<handlers, running, worker_task, workers, stopping,
                   ids_issued, taken, stopped>>
    /\ UNCHANGED provider_side

\* The handler awaited by a process_task call made outside the worker loop
\* returns value: lines 165-166.
DirectHandlerReturns(i, value) ==
    /\ i \in direct
    /\ tasks' = [tasks EXCEPT ![i] =
          complete([@ EXCEPT !.outcome = "returned", !.returned = value], value)]
    /\ direct' = direct \ {i}
    /\ UNCHANGED <<handlers, running, worker_task, workers, stopping,
                   ids_issued, taken, stopped, process_calls>>
    /\ UNCHANGED provider_side

\* The handler awaited by a process_task call made outside the worker loop
\* raises e: lines 167-169.
DirectHandlerRaises(i, e) ==
    /\ i \in direct
    /\ tasks' = [tasks EXCEPT ![i] = fail([@ EXCEPT !.outcome = "raised"], str(e))]
    /\ direct' = direct \ {i}
    /\ UNCHANGED <<handlers, running, worker_task, workers, stopping,
                   ids_issued, taken, stopped, process_calls>>
    /\ UNCHANGED provider_side

\* A started queue whose process_task is also called from outside the
\* worker loop.
NextProcess ==
    \/ \E task_type \in TaskTypes : RegisterHandler(task_type)
    \/ \E task_type \in TaskTypes : CreateTask(task_type)
    \/ Start
    \/ \E w \in 1..Len(workers) : WorkerResumes(w)
    \/ \E w \in 1..Len(workers), value \in ReturnValues : HandlerReturns(w, value)
    \/ \E w \in 1..Len(workers), e \in Exceptions : HandlerRaises(w, e)
    \/ \E task \in 1..Len(tasks) : Cancel(task)
    \/ \E i \in 1..Len(tasks) : DirectProcessTask(i)
    \/ \E i \in direct, value \in ReturnValues : DirectHandlerReturns(i, value)
    \/ \E i \in direct, e \in Exceptions : DirectHandlerRaises(i, e)

SpecProcess == InitQueue /\ [][NextProcess]_vars

\* ------------------------------------------------------------ properties
\* The providers attempted so far in the call in progress.
Attempted == {attempts[i].provider : i \in 1..Len(attempts)}

\* The fallback attempts made so far in the call in progress.
FallbackAttempts == {i \in 1..Len(attempts) : attempts[i].phase = "fallback"}

\* The primary of the call, as the caller means it.
Primary == IF requested = NoName THEN default_provider ELSE requested

\* C1: when the resolved primary (the explicit provider_name, else
\* default_provider) is registered and enabled it is the first provider
\* attempted, and when that attempt succeeds the call returns its result, no
\* other provider is attempted and no other provider's counters change.
C1_PrimarySuccessReturnsPrimary ==
    (kind = "manager" /\ Primary \in ProviderIds /\ enabled[Primary]) =>
        /\ attempts # <<>>
        /\ attempts[1].provider = Primary
        /\ attempts[1].phase = "primary"
        /\ (pc = "done" /\ attempts[1].outcome = "ok") =>
              /\ result.status = "success"
              /\ result.provider = Primary
              /\ Len(attempts) = 1
              /\ \A q \in ProviderIds \ {Primary} :
                    /\ request_count[q] = start_request_count[q]
                    /\ error_count[q] = start_error_count[q]

\* C1 witness: a call without a provider_name returned the default
\* provider's result while another enabled provider stood by.
C1_Witness ==
    /\ kind = "manager" /\ pc = "done" /\ requested = NoName
    /\ result.status = "success" /\ result.provider = default_provider
    /\ \E q \in ProviderIds : q # default_provider /\ enabled[q]

\* C2: under the priority strategy every fallback attempt goes to the
\* enabled, not yet tried provider of lowest priority value, the one
\* registered first among equals.
C2_PriorityFallbackPicksBest ==
    (kind = "manager" /\ fallback_strategy = "priority") =>
        \A i \in FallbackAttempts :
            LET p == attempts[i].provider
                before == {attempts[j].provider : j \in 1..(i - 1)}
            IN /\ enabled[p]
               /\ p \notin before
               /\ \A q \in ProviderIds :
                     (enabled[q] /\ q \notin before) =>
                        \/ priority[p] < priority[q]
                        \/ priority[p] = priority[q] /\ p <= q

\* C2 witness: after a failed primary the fallback went to a provider of
\* better priority than the primary's.
C2_Witness ==
    /\ kind = "manager" /\ fallback_strategy = "priority"
    /\ Len(attempts) = 2
    /\ attempts[1].phase = "primary" /\ attempts[1].outcome = "error"
    /\ attempts[2].phase = "fallback"
    /\ priority[attempts[2].provider] < priority[attempts[1].provider]

\* C3: a finished call has failed exactly when none of its attempts
\* succeeded, and the attempt count it then reports is the number of
\* distinct providers attempted, all of them enabled.
C3_AllFailedCountsAttempts ==
    (kind = "manager" /\ pc = "done") =>
        /\ result.status = "failed" <=>
              \A i \in 1..Len(attempts) : attempts[i].outcome # "ok"
        /\ result.status = "failed" =>
              /\ result.attempts = Cardinality(Attempted)
              /\ \A q \in Attempted : enabled[q]

\* C3 witness: every registered provider was attempted and failed.
C3_Witness ==
    /\ kind = "manager" /\ pc = "done" /\ result.status = "failed"
    /\ result.attempts = NumProviders
    /\ Attempted = ProviderIds

\* C4 as claimed: the number of providers attempted in a call, and the
\* attempt count reported on failure, never exceed max_retries.
C4_AttemptsWithinMaxRetries ==
    kind = "manager" =>
        /\ Len(attempts) <= max_retries
        /\ result.status = "failed" => result.attempts <= max_retries

\* C4 amended: the fallback attempts of a call never exceed max_retries, so
\* with the primary attempt the providers attempted, and the attempt count
\* reported on failure, never exceed max_retries + 1.
C4_AttemptsWithinMaxRetriesPlusPrimary ==
    kind = "manager" =>
        /\ Cardinality(FallbackAttempts) <= max_retries
        /\ Len(attempts) <= max_retries + 1
        /\ result.status = "failed" => result.attempts <= max_retries + 1

\* C4 witness: a failed call that attempted max_retries + 1 providers.
C4_Witness ==
    /\ kind = "manager" /\ pc = "done" /\ result.status = "failed"
    /\ max_retries >= 1
    /\ result.attempts = max_retries + 1

\* C5: within one call no provider is attempted twice.
C5_NoProviderAttemptedTwice ==
    kind = "manager" =>
        \A i, j \in 1..Len(attempts) :
            i # j => attempts[i].provider # attempts[j].provider

\* C5 witness: under the random strategy a fallback attempt followed a
\* failed primary.
C5_Witness ==
    /\ kind = "manager" /\ fallback_strategy = "random"
    /\ Len(attempts) = 2
    /\ attempts[1].phase = "primary"
    /\ attempts[2].phase = "fallback"

\* C6: a disabled provider is never attempted by the manager, its capability
\* is never invoked and its request_count and error_count never change.
C6_DisabledNeverAttempted ==
    \A p \in ProviderIds :
        ~enabled[p] =>
            /\ request_count[p] = 0
            /\ error_count[p] = 0
            /\ admitted[p] = <<>>
            /\ kind = "manager" => p \notin Attempted
            /\ pc = "await" => current # p

\* C6 witness: a call naming a disabled provider went on to attempt another.
C6_Witness ==
    /\ kind = "manager" /\ pc = "done"
    /\ requested \in ProviderIds /\ ~enabled[requested]
    /\ attempts # <<>>

\* C7: get_all_providers() is the enabled providers in registration order;
\* get_provider_status() has one entry per registered provider, enabled or
\* not, carrying its flag and counters.
C7_EnabledListedStatusComplete ==
    LET all == get_all_providers
        status == get_provider_status
    IN /\ Range(all) = {p \in ProviderIds : enabled[p]}
       /\ \A i, j \in 1..Len(all) : i < j => all[i] < all[j]
       /\ Len(status) = NumProviders
       /\ \A p \in ProviderIds :
             \E i \in 1..Len(status) :
                 /\ status[i].name = p
                 /\ status[i].enabled = enabled[p]
                 /\ status[i].request_count = request_count[p]
                 /\ status[i].error_count = error_count[p]

\* C7 witness: one provider is disabled, another is enabled and has served a
\* request.
C7_Witness ==
    \E p, q \in ProviderIds :
        /\ ~enabled[p]
        /\ enabled[q] /\ request_count[q] > 0
        /\ p \notin Range(get_all_providers)

\* The primary of the call in progress was unregistered, disabled or
\* rejected as rate-limited.
PrimaryUnavailable ==
    \/ Primary \notin ProviderIds
    \/ ~enabled[Primary]
    \/ /\ attempts # <<>>
       /\ attempts[1].phase = "primary"
       /\ attempts[1].outcome = "rate_limited"

\* C8: an unregistered, disabled or rate-limited primary does not fail the
\* call: the fallback loop runs, a fallback candidate that succeeds gives the
\* call's result, and the call fails only when max_retries fallback attempts
\* were made or no enabled provider is left.
C8_UnavailablePrimaryFallsBack ==
    (kind = "manager" /\ PrimaryUnavailable) =>
        /\ result.status \in {"none", "success", "failed"}
        /\ \A i \in 1..Len(attempts) :
              attempts[i].outcome = "ok" =>
                 /\ attempts[i].phase = "fallback"
                 /\ pc = "done"
                 /\ result.status = "success"
                 /\ result.provider = attempts[i].provider
        /\ (pc = "done" /\ result.status = "failed") =>
              \/ Cardinality(FallbackAttempts) = max_retries
              \/ \A q \in ProviderIds : enabled[q] => q \in Attempted

\* C8 witness: the primary was rejected as rate-limited and the caller got
\* the fallback provider's result.
C8_Witness ==
    /\ kind = "manager" /\ pc = "done" /\ result.status = "success"
    /\ Len(attempts) = 2
    /\ attempts[1].phase = "primary" /\ attempts[1].outcome = "rate_limited"
    /\ result.provider = attempts[2].provider

\* The admissions of log up to the n-th that follow one another by at most
\* one window.
RECURSIVE Chained(_, _)
Chained(log, n) ==
    IF n = 0 THEN 0
    ELSE IF n = 1 THEN 1
    ELSE IF log[n] - log[n - 1] <= time_window THEN 1 + Chained(log, n - 1)
    ELSE 1

\* The requests of provider p counted in its current window.
CountedInWindow(p) ==
    IF admitted[p] = <<>> THEN 0
    ELSE IF now - admitted[p][Len(admitted[p])] > time_window THEN 0
    ELSE Chained(admitted[p], Len(admitted[p]))

\* C9: an attempt is rejected as rate-limited exactly when the provider has
\* a limit L and L requests are counted in its current window; an enabled
\* provider's attempt that is not rejected is admitted, and an admission
\* more than 60 seconds after the last one restarts the count at 1.
C9_RateLimitedIffCounted ==
    [][ncalls' = ncalls + 1 =>
        LET p == provider_name'
            outcome == attempts'[Len(attempts')].outcome
        IN /\ outcome = "rate_limited" <=>
                 (rate_limit[p] # 0 /\ CountedInWindow(p) >= rate_limit[p])
           /\ (enabled[p] /\ outcome # "rate_limited") => outcome = "pending"
           /\ (outcome = "pending" /\ rate_limit[p] # 0
                 /\ CountedInWindow(p) = 0) => request_count'[p] = 1]_vars

\* C9 witness: with limit 1 a provider was admitted, admitted again more
\* than 60 seconds later, and then rejected within the new window.
C9_Witness ==
    \E p \in ProviderIds :
        /\ rate_limit[p] = 1
        /\ Len(admitted[p]) = 2
        /\ admitted[p][2] - admitted[p][1] > time_window
        /\ kind = "direct" /\ pc = "done"
        /\ attempts = <<[provider |-> p, phase |-> "direct",
                         outcome |-> "rate_limited"]>>

\* C10: the caller of the manager never receives a single provider's
\* error; a failed call has exhausted its retries or its candidates, and its
\* error is the error of the last provider attempted in that call.
C10_OnlyAggregatedFailureSurfaces ==
    kind = "manager" =>
        /\ result.status # "error"
        /\ (pc = "done" /\ result.status = "failed") =>
              /\ \/ retries >= max_retries
                 \/ \A q \in ProviderIds : enabled[q] => q \in Attempted
              /\ IF attempts = <<>> THEN result.error = NoError
                 ELSE /\ result.error.provider = attempts[Len(attempts)].provider
                      /\ result.error.kind = attempts[Len(attempts)].outcome

\* C10 witness: two providers failed in different ways and the call failed.
C10_Witness ==
    /\ kind = "manager" /\ pc = "done" /\ result.status = "failed"
    /\ Len(attempts) = 2
    /\ attempts[1].outcome = "rate_limited"
    /\ attempts[2].outcome = "error"
    /\ result.error = [kind |-> "error", provider |-> attempts[2].provider]

\* --------------------------------------------------- task queue properties
\* C11: create_task adds exactly one new task to the queue and returns its id
\* without running it: the new task is pending with progress 0 and no result,
\* no error and no completed_at, its id differs from every id handed out
\* before, and every other task is left unchanged.
C11_CreateTaskAddsOnePendingTask ==
    [][ids_issued' # ids_issued =>
          LET n == Len(tasks)
              task_id == ids_issued'[Len(ids_issued')]
          IN /\ Len(tasks') = n + 1
             /\ \A i \in 1..n : tasks'[i] = tasks[i]
             /\ tasks'[n + 1].task_id = task_id
             /\ tasks'[n + 1].status = "pending"
             /\ tasks'[n + 1].progress = 0
             /\ tasks'[n + 1].result = None
             /\ tasks'[n + 1].error = None
             /\ tasks'[n + 1].completed_at = None
             /\ tasks'[n + 1].invoked = 0
             /\ task_id \notin Range(ids_issued)
             /\ \A i \in 1..n : tasks[i].task_id # task_id
             /\ UNCHANGED <<workers, taken>>]_vars

\* A second task was created after the first one was processed.
C11_Witness ==
    /\ Len(tasks) = 2
    /\ tasks[1].status = "completed"
    /\ tasks[2].status = "pending"
    /\ tasks[2].task_id # tasks[1].task_id

\* C12: when the worker processes a pending task whose type has a registered
\* handler and the handler returns a value, the task passes through running
\* and ends completed, with result equal to the value returned and progress
\* equal to 1.0.
C12_HandlerReturnCompletesTask ==
    [][\A i \in 1..Len(tasks) :
          /\ (/\ tasks[i].status = "pending"
              /\ tasks'[i].status \notin {"pending", "cancelled"}
              /\ handlers[tasks[i].task_type] # None)
             => (tasks'[i].status = "running" /\ tasks'[i].invoked = 1)
          /\ (tasks[i].outcome = "none" /\ tasks'[i].outcome = "returned")
             => (/\ tasks[i].was_running
                 /\ tasks'[i].status = "completed"
                 /\ tasks'[i].result = tasks'[i].returned
                 /\ tasks'[i].progress = FullProgress)]_vars

\* A handler has returned a value and its task is completed with it.
C12_Witness ==
    \E i \in 1..Len(tasks) :
        /\ tasks[i].outcome = "returned"
        /\ tasks[i].status = "completed"
        /\ tasks[i].result = <<"done">>

\* C13: a pending task whose type has no registered handler when the worker
\* reaches it goes from pending to failed directly: it is never running, no
\* handler is invoked for it, and its error names the missing task type.
C13_NoHandlerFailsDirectly ==
    [][\A i \in 1..Len(tasks) :
          (/\ tasks[i].status = "pending"
           /\ tasks'[i].status \notin {"pending", "cancelled"}
           /\ handlers[tasks[i].task_type] = None)
          => (/\ tasks'[i].status = "failed"
              /\ tasks'[i].error =
                    <<"No handler registered for task type: ", tasks[i].task_type>>
              /\ ~tasks'[i].was_running
              /\ tasks'[i].invoked = 0)]_vars

\* A task has failed for want of a handler without ever running.
C13_Witness ==
    \E i \in 1..Len(tasks) :
        /\ tasks[i].status = "failed"
        /\ tasks[i].error = <<"No handler registered for task type: ", "echo">>
        /\ ~tasks[i].was_running

\* Some handler invocation has raised.
HandlerFailed == \E j \in 1..Len(tasks) : tasks[j].outcome = "raised"

\* C14: a handler failure is confined to its task: the task ends failed with
\* the stringified cause as its error, no other task is touched by the
\* failure, the worker loop keeps running, and every task pending after a
\* failure, whether created before or after the failing one, is still
\* processed by a queue that stays started.
C14_HandlerFailureConfined ==
    /\ [][\A i \in 1..Len(tasks) :
             (tasks[i].outcome = "none" /\ tasks'[i].outcome = "raised")
             => (/\ tasks'[i].status = "failed"
                 /\ \E e \in Exceptions : tasks'[i].error = <<e.msg>>
                 /\ \A j \in 1..Len(tasks) :
                       j # i => (tasks'[j] = tasks[j] \/ tasks[j].status = "pending")
                 /\ \A w \in 1..Len(workers) :
                       (workers[w].pc = "handler" /\ workers[w].task = i /\ running)
                       => (\/ workers'[w].pc = "handler"
                           \/ /\ workers'[w].pc = "sleep"
                              /\ \A j \in 1..Len(tasks) : tasks'[j].status # "pending"))]_vars
    /\ \A i \in 1..MaxTasks :
          (/\ HandlerFailed
           /\ running
           /\ i <= Len(tasks)
           /\ tasks[i].status = "pending")
          ~> (~running \/ (i <= Len(tasks) /\ tasks[i].status # "pending"))

\* A handler raised on the first task and the worker went on to complete the
\* second.
C14_Witness ==
    /\ Len(tasks) = 2
    /\ tasks[1].outcome = "raised"
    /\ tasks[1].status = "failed"
    /\ tasks[1].error = <<"boom">>
    /\ tasks[2].status = "completed"

\* C15: the worker starts tasks in creation order: of two tasks it takes, the
\* one created first leaves pending first, and the task it picks is always
\* the earliest-created task still pending.
C15_WorkerTakesTasksInCreationOrder ==
    /\ \A k \in 1..(Len(taken) - 1) : taken[k] < taken[k + 1]
    /\ \A k \in 1..Len(taken) :
          \A i \in 1..Len(tasks) : i < taken[k] => tasks[i].status # "pending"

\* The worker took both tasks, the first before the second.
C15_Witness ==
    /\ taken = <<1, 2>>
    /\ tasks[1].was_running
    /\ tasks[2].status = "completed"

\* The tasks whose status is running.
RunningTasks == {i \in 1..Len(tasks) : tasks[i].status = "running"}

\* The worker tasks that have not ended.
LiveWorkers == {w \in 1..Len(workers) : workers[w].pc # "done"}

\* C16: task processing is strictly serial: in every reachable state at most
\* one task has status running.
C16_AtMostOneTaskRunning == Cardinality(RunningTasks) <= 1

\* The fields of the TaskQueue and of its tasks and worker tasks.
queue_fields == <<tasks, handlers, running, worker_task, workers, stopping>>

\* C17: start() is idempotent: called while the queue is running it changes
\* nothing, and with no stop() in between any number of start() calls leaves
\* exactly one worker loop, the one worker_task refers to.
C17_StartIdempotent ==
    /\ running => ~ENABLED <<Start>>_queue_fields
    /\ Len(workers) <= 1
    /\ running <=> (LiveWorkers = {1} /\ worker_task = 1)

\* The queue is running with its one worker busy, where start() can be
\* called again.
C17_Witness ==
    /\ running
    /\ Len(workers) = 1
    /\ workers[1].pc = "handler"
    /\ ENABLED Start

\* The worker tasks that are idle: not yet run, or in their one-second wait.
IdleWorkers == {w \in 1..Len(workers) : workers[w].pc \in {"created", "sleep"}}

\* C18: a stop() issued while the worker is idle terminates: the idle worker
\* it waits for can only end, and stop() can return once it has. From the
\* moment stop() has returned until start() is called again no task leaves
\* pending at the hands of a worker and no handler is invoked.
C18_StoppedWorkerTakesNoStep ==
    [][/\ \A s \in stopping :
             s.idle =>
                IF s.worker \in IdleWorkers
                THEN /\ workers[s.worker].cancel_requested
                     /\ ENABLED WorkerResumes(s.worker)
                     /\ workers'[s.worker] # workers[s.worker]
                        => workers'[s.worker].pc = "done"
                ELSE /\ workers[s.worker].pc = "done"
                     /\ ENABLED StopReturns(s)
       /\ stopped
          => \A i \in 1..Len(tasks) :
                /\ tasks[i].status = "pending"
                   => tasks'[i].status \in {"pending", "cancelled"}
                /\ tasks'[i].invoked = tasks[i].invoked]_vars

\* stop() has returned after ending an idle worker, with a task still
\* pending and a handler registered for it.
C18_Witness ==
    /\ stopped
    /\ ~running
    /\ Len(workers) = 1
    /\ workers[1].pc = "done"
    /\ \E i \in 1..Len(tasks) :
          tasks[i].status = "pending" /\ handlers[tasks[i].task_type] # None

\* C19: a stop() called while a handler is executing does not interrupt it:
\* no handler invocation is cut short, and a task in status running always
\* has a worker executing its handler, so stop() never leaves a task running.
C19_StopLetsHandlerFinish ==
    \A i \in 1..Len(tasks) :
        /\ tasks[i].outcome # "interrupted"
        /\ tasks[i].status = "running"
           => \E w \in LiveWorkers : workers[w].pc = "handler" /\ workers[w].task = i

\* The edges of the task state machine.
LifecycleEdges ==
    {<<"pending", "running">>, <<"running", "completed">>, <<"running", "failed">>,
     <<"pending", "failed">>, <<"pending", "cancelled">>, <<"running", "cancelled">>}

\* C20: every status change of a task follows an edge of the state machine,
\* so a task that is completed, failed or cancelled never changes status
\* again, whatever the interleaving of worker steps and cancel() calls.
C20_StatusFollowsLifecycle ==
    [][\A i \in 1..Len(tasks) :
          \/ tasks'[i].status = tasks[i].status
          \/ <<tasks[i].status, tasks'[i].status>> \in LifecycleEdges]_vars

\* ------------------------------------------------ provider properties (2)
\* C21: the fallback loop of generate_completion makes at most max_retries
\* attempts (none when max_retries = 0) and gives up before that only when
\* every enabled provider has been attempted; so a call makes at most
\* max_retries + 1 attempts and, every capability invocation returning, it
\* ends with a result or with the aggregated failure.
C21_FallbackLoopBoundedAndTerminates ==
    /\ [](Cardinality(FallbackAttempts) <= max_retries)
    /\ [](Len(attempts) <= max_retries + 1)
    /\ []((pc = "done" /\ result.status = "failed")
          => (\/ retries = max_retries
              \/ \A p \in ProviderIds : enabled[p] => p \in Attempted))
    /\ (pc \in {"await", "select"})
          ~> (pc = "done" /\ result.status \in {"success", "failed"})

\* A call gave up after two attempts with retries to spare: no enabled
\* provider was left.
C21_Witness ==
    /\ pc = "done"
    /\ result.status = "failed"
    /\ Len(attempts) = 2
    /\ retries < max_retries

\* ---------------------------------------------- task queue properties (2)
\* The statuses a task ends in.
TerminalStatuses == {"completed", "failed", "cancelled"}

\* C22: completed_at of a task is written exactly once: once it is set, no
\* later operation writes it again. Task.complete, Task.fail and Task.cancel
\* each write completed_at, and nothing else changes the status of a task
\* whose completed_at is set, so such a task never changes status.
C22_CompletedAtWrittenOnce ==
    [][\A i \in 1..Len(tasks) :
          tasks[i].completed_at # None
          => /\ tasks'[i].completed_at = tasks[i].completed_at
             /\ tasks'[i].status = tasks[i].status]_vars

\* C23: in every reachable state a task's result is present only if its
\* status is completed, and its error only if its status is failed.
C23_ResultAndErrorMatchStatus ==
    \A i \in 1..Len(tasks) :
        /\ tasks[i].result # None => tasks[i].status = "completed"
        /\ tasks[i].error # None => tasks[i].status = "failed"

\* C24: in every reachable state a task's completed_at is set if and only if
\* its status is completed, failed or cancelled.
C24_CompletedAtIffTerminal ==
    \A i \in 1..Len(tasks) :
        tasks[i].completed_at # None <=> tasks[i].status \in TerminalStatuses

\* One task is running, with completed_at unset, and the other was cancelled
\* while pending, with completed_at set.
C24_Witness ==
    /\ Len(tasks) = 2
    /\ tasks[1].status = "running"
    /\ tasks[1].completed_at = None
    /\ tasks[2].status = "cancelled"
    /\ ~tasks[2].was_running
    /\ tasks[2].completed_at # None

\* The tasks cancelled while they were pending: no process_task call got
\* past its status check for them.
CancelledWhilePending ==
    {i \in 1..Len(tasks) : /\ tasks[i].status = "cancelled"
                           /\ ~tasks[i].was_running
                           /\ tasks[i].error = None}

\* C25: a process_task call on a task that is not pending invokes no handler
\* and changes no field of any task; a task cancelled while pending is
\* never run, is never taken by the worker, and keeps status cancelled.
C25_NonPendingTaskNotProcessed ==
    /\ [][Len(process_calls') > Len(process_calls)
            => LET c == process_calls'[Len(process_calls')] IN
                  tasks[c.task].status # "pending"
                  => tasks' = tasks /\ direct' = direct]_vars
    /\ [][\A i \in CancelledWhilePending : tasks'[i] = tasks[i]]_vars
    /\ [](\A i \in CancelledWhilePending :
              /\ tasks[i].invoked = 0
              /\ i \notin direct
              /\ \A k \in 1..Len(taken) : taken[k] # i
              /\ \A w \in 1..Len(workers) : workers[w].task # i)

\* A process_task call was made on a task cancelled while pending, with a
\* worker running and a handler registered; the task is still cancelled.
C25_Witness ==
    /\ running
    /\ \E k \in 1..Len(process_calls) :
          /\ process_calls[k].status = "cancelled"
          /\ process_calls[k].task \in CancelledWhilePending
          /\ handlers[tasks[process_calls[k].task].task_type] # None
    /\ \E k \in 1..Len(process_calls) : process_calls[k].status = "running"

\* The start of provider p's current window: the moment its count was last
\* reset to 0, which is the time of the first admission counted since (the
\* reset and that admission happen in one check), or the construction of
\* the provider when nothing was counted yet.
WindowStart(p) ==
    IF request_count[p] = 0 THEN InitialLastRequestTime
    ELSE admitted[p][Len(admitted[p]) - request_count[p] + 1]

\* C26: for a provider with a rate limit, a rate-limit check made more than
\* 60 seconds after the start of the current window resets the window and
\* does not limit the attempt, however recent the last request is.
C26_WindowResetsAfterStart ==
    [][ncalls' = ncalls + 1 =>
        LET p == provider_name' IN
           (enabled[p] /\ rate_limit[p] # 0 /\ now - WindowStart(p) > time_window)
           => /\ attempts'[Len(attempts')].outcome = "pending"
              /\ request_count'[p] = 1
              /\ last_request_time'[p] = now]_vars

\* A step that makes a provider attempt: it adds an entry to the attempts of
\* the call in progress.
AttemptMade ==
    /\ attempts' # attempts
    /\ Len(attempts') > 0
    /\ attempts'[Len(attempts')].outcome \in {"disabled", "rate_limited", "pending"}

\* C27: an attempt rejected because the provider is disabled or rate-limited
\* does not invoke the capability and leaves request_count, error_count and
\* last_request_time as they were; an attempt on a disabled provider is
\* rejected as disabled, whatever its rate limit says.
C27_RejectedAttemptLeavesStats ==
    [][AttemptMade =>
        LET a == attempts'[Len(attempts')] IN
           /\ a.outcome \in {"disabled", "rate_limited"}
              => /\ request_count' = request_count
                 /\ error_count' = error_count
                 /\ last_request_time' = last_request_time
                 /\ admitted' = admitted
                 /\ pc' # "await"
                 /\ current' = NoName
           /\ ~enabled[a.provider] <=> a.outcome = "disabled"
           /\ a.outcome = "rate_limited"
              => /\ rate_limit[a.provider] # 0
                 /\ request_count[a.provider] >= rate_limit[a.provider]]_vars

\* C27 witness: a direct attempt on a disabled provider with a rate limit
\* was rejected as disabled while another provider is at its limit within
\* its window; the disabled provider's fields are as constructed.
C27_Witness ==
    /\ kind = "direct" /\ pc = "done"
    /\ Len(attempts) = 1
    /\ attempts[1].outcome = "disabled"
    /\ rate_limit[attempts[1].provider] # 0
    /\ request_count[attempts[1].provider] = 0
    /\ last_request_time[attempts[1].provider] = InitialLastRequestTime
    /\ \E q \in ProviderIds : /\ rate_limit[q] # 0
                              /\ request_count[q] = rate_limit[q]
                              /\ now - last_request_time[q] <= time_window

C29_ReportedRequestCountCumulative ==
    [][\A i \in 1..Len(providers) :
          LET before == get_provider_status[i].request_count
              after == get_provider_status'[i].request_count
              admits == /\ AttemptMade
                        /\ attempts'[Len(attempts')].outcome = "pending"
                        /\ attempts'[Len(attempts')].provider = providers[i]
          IN /\ after >= before
             /\ after = before + (IF admits THEN 1 ELSE 0)]_vars

\* The outcomes of an attempt that has failed.
FailedOutcomes == {"disabled", "rate_limited", "error"}

\* C30: within one generate_completion call at most one attempt is in
\* flight, the primary attempt comes before every fallback attempt, and
\* every attempt but the last has failed: a fallback attempt starts only
\* after the previous attempt has failed.
C30_AttemptsStrictlySequential ==
    /\ Cardinality({i \in 1..Len(attempts) : attempts[i].outcome = "pending"}) <= 1
    /\ \A i \in 1..Len(attempts) :
          /\ i < Len(attempts) => attempts[i].outcome \in FailedOutcomes
          /\ attempts[i].phase = "primary" => i = 1
          /\ i > 1 => attempts[i].phase = "fallback"
          /\ attempts[i].outcome = "pending"
             <=> (i = Len(attempts) /\ pc = "await" /\ current = attempts[i].provider)
    /\ pc = "select" => (attempts = <<>> \/ attempts[Len(attempts)].outcome \in FailedOutcomes)

\* C30 witness: the primary attempt failed and a fallback attempt is in
\* flight.
C30_Witness ==
    /\ Len(attempts) = 2
    /\ attempts[1].phase = "primary" /\ attempts[1].outcome = "error"
    /\ attempts[2].phase = "fallback" /\ attempts[2].outcome = "pending"
    /\ pc = "await"

\* The position of provider p in registration order (the order of
\* self.providers).
RegistrationIndex(p) == CHOOSE i \in 1..Len(providers) : providers[i] = p

\* The providers that are enabled and were not attempted before the i-th
\* attempt of the call in progress.
Remaining(i) ==
    {p \in ProviderIds : enabled[p] /\ \A j \in 1..(i - 1) : attempts[j].provider # p}

\* C31: under round-robin every fallback attempt goes to the first provider,
\* in registration order, among those enabled and not yet tried in the call.
C31_RoundRobinTakesFirstRemaining ==
    fallback_strategy = "round-robin" =>
        \A i \in 1..Len(attempts) :
            attempts[i].phase = "fallback" =>
                /\ attempts[i].provider \in Remaining(i)
                /\ \A q \in Remaining(i) :
                      RegistrationIndex(attempts[i].provider) <= RegistrationIndex(q)

\* C31 witness: under round-robin two fallback attempts were made, the first
\* on the provider registered first although the other has priority.
C31_Witness ==
    /\ fallback_strategy = "round-robin"
    /\ Len(attempts) = 2
    /\ attempts[1].phase = "fallback" /\ attempts[2].phase = "fallback"
    /\ priority[attempts[2].provider] < priority[attempts[1].provider]
    /\ RegistrationIndex(attempts[1].provider) < RegistrationIndex(attempts[2].provider)

\* C32: under round-robin a rotation cursor persists across calls: two
\* successive generate_completion calls that reach the fallback loop with
\* the same two or more candidates do not both start with the same provider.
C32_RotationPersistsAcrossCalls ==
    fallback_strategy = "round-robin" =>
        \A i \in 1..(Len(rotation) - 1) :
            (/\ rotation[i + 1].call = rotation[i].call + 1
             /\ rotation[i + 1].candidates = rotation[i].candidates
             /\ Cardinality(rotation[i].candidates) >= 2)
            => rotation[i + 1].provider # rotation[i].provider

\* C33: with calls running concurrently, a provider with rate limit L starts
\* at most L capability invocations in any 60 seconds: an invocation is
\* started only when the L-th most recent start before it is more than 60
\* seconds old, and the step that passes the limit check also counts the
\* request.
C33_AtMostLimitInvocationsPerWindow ==
    [][\A p \in ProviderIds :
          (inflight'[p] = inflight[p] + 1 /\ rate_limit[p] # 0)
          => /\ Len(admitted[p]) >= rate_limit[p]
                => now - admitted[p][Len(admitted[p]) - rate_limit[p] + 1] > time_window
             /\ request_count'[p] <= rate_limit[p]
             /\ request_count'[p] =
                   (IF now - last_request_time[p] > time_window
                    THEN 0 ELSE request_count[p]) + 1]_vars

\* C33 witness: a provider with limit 2 has two invocations in flight at the
\* same time, both counted, after at least three calls.
C33_Witness ==
    \E p \in ProviderIds :
        /\ rate_limit[p] = 2
        /\ inflight[p] = 2
        /\ request_count[p] = 2
        /\ ncalls >= 3
        /\ \A q \in ProviderIds \ {p} : request_count[q] = 0 /\ inflight[q] = 0

\* The providers that are enabled.
EnabledProviders == {p \in ProviderIds : enabled[p]}

\* C34: with max_retries at least the number of enabled providers, a call
\* fails only after every enabled provider was attempted exactly once and
\* each attempt failed or was rejected as rate-limited, under every strategy.
C34_FailsOnlyAfterEveryEnabledProviderFailed ==
    (/\ pc = "done"
     /\ result.status = "failed"
     /\ max_retries >= Cardinality(EnabledProviders))
    => \A p \in EnabledProviders :
          /\ Cardinality({i \in 1..Len(attempts) : attempts[i].provider = p}) = 1
          /\ \A i \in 1..Len(attempts) :
                attempts[i].provider = p => attempts[i].outcome \in {"error", "rate_limited"}

\* C34 witness: a call with max_retries at least the number of enabled
\* providers failed after a fallback attempt on each of the two, one of them
\* rejected as rate-limited.
C34_Witness ==
    /\ pc = "done" /\ result.status = "failed"
    /\ Cardinality(EnabledProviders) = 2
    /\ max_retries >= 2
    /\ Len(attempts) = 2
    /\ attempts[1].phase = "fallback"
    /\ \E i \in 1..2 : attempts[i].outcome = "rate_limited"
    /\ \E i \in 1..2 : attempts[i].outcome = "error"

\* C35: the handler of a task is invoked at most once in the task's life,
\* whatever the interleaving of the worker loop and of process_task calls
\* made from outside it; a task whose handler is awaited is not pending.
C35_HandlerInvokedAtMostOnce ==
    /\ \A i \in 1..Len(tasks) : tasks[i].invoked <= 1
    /\ \A i \in direct : tasks[i].status # "pending"
    /\ \A w \in 1..Len(workers) :
          workers[w].pc = "handler" => tasks[workers[w].task].status # "pending"
    /\ \A i \in direct : \A w \in 1..Len(workers) :
          workers[w].pc = "handler" => workers[w].task # i

\* C35 witness: the worker awaits the handler of one task and a process_task
\* call made outside it awaits the handler of another; process_task was
\* called again on a task while it was running, and each handler was invoked
\* once.
C35_Witness ==
    /\ Len(tasks) = 2
    /\ \E w \in 1..Len(workers) : workers[w].pc = "handler"
    /\ direct # {}
    /\ \E k \in 1..Len(process_calls) : process_calls[k].status = "running"
    /\ \A i \in 1..Len(tasks) : tasks[i].invoked = 1

\* The worker loops that are alive: the worker tasks that have not ended,
\* not counting a worker task whose cancellation was requested while it was
\* created or asleep (it ends at its next step without running the loop).
LiveLoops ==
    {w \in LiveWorkers :
        ~(workers[w].cancel_requested /\ workers[w].pc \in {"created", "sleep"})}

\* C36: under any interleaving of start() and stop() calls at most one
\* worker loop is alive, and whenever running is true worker_task refers to
\* that live loop.
C36_OneLiveLoopReferredTo ==
    /\ Cardinality(LiveLoops) <= 1
    /\ running => (worker_task # NoWorker /\ worker_task \in LiveLoops)

\* C37: while the queue stays started and every handler invocation returns
\* or raises, every pending task eventually reaches a terminal status,
\* whether it was created before the start, while the worker was busy or
\* while it was asleep.
C37_PendingTaskEventuallyTerminal ==
    \A i \in 1..MaxTasks :
        (running /\ i <= Len(tasks) /\ tasks[i].status = "pending")
        ~> (i <= Len(tasks) /\ tasks[i].status \in TerminalStatuses)

\* C37 witness: the worker has processed two tasks to the end, one after the
\* other, and is back in its idle wait with the queue still started.
C37_Witness ==
    /\ running
    /\ Len(tasks) = 2
    /\ taken = <<1, 2>>
    /\ \A i \in 1..2 : tasks[i].status \in {"completed", "failed"} /\ tasks[i].invoked = 1
    /\ \E w \in 1..Len(workers) : workers[w].pc = "sleep"

====
